---- MODULE Spec2Model ----
(***************************************************************************)
(* Model of main.py: a FastAPI backend that keeps "test" documents in the  *)
(* JSON file tests.json and forwards prompts to the Gemini API.            *)
(*                                                                         *)
(* Server processes (uvicorn workers) share tests.json.  Every handler is  *)
(* an `async def` whose body contains no await after the request body has  *)
(* been read, so a handler occupies its process's event loop from its      *)
(* first statement to its return; handlers of different processes          *)
(* interleave at the granularity of their file and network operations.     *)
(*                                                                         *)
(* Python strings that are only compared for equality are TLA+ strings;    *)
(* strings that are ordered, stripped or measured (createdAt, questionText)*)
(* are sequences of character codes.                                       *)
(***************************************************************************)
EXTENDS Integers, Sequences, FiniteSets, TLC

\* Requests issued in one behaviour.
MaxReqs == 2
\* Records in tests.json when the servers start.
MaxSeed == 2
\* Questions in a generated paper.
MaxQuestions == 2
\* "an array of 4 options": what the prompt asks the provider for
OptionCount == 4

Reqs == 1..MaxReqs
Workers == {"w1", "w2"}

VARIABLES
    apiKey,     \* API_KEY, fixed for the life of the process
    reply,      \* what the provider answers to requests.post
    seed,       \* tests.json as found at startup (never changes)
    file,       \* tests.json now
    pc,         \* pc[r]: "idle", "queued", "loaded", "net", "done"
    req,        \* req[r]: worker process, endpoint and argument of request r
    snap,       \* snap[r]: the list load_tests_from_db returned to request r
    tests,      \* tests[r]: the handler's local variable `tests`
    resp,       \* resp[r]: the HTTP response of request r
    netCalls    \* number of requests.post calls made

vars == <<apiKey, reply, seed, file, pc, req, snap, tests, resp, netCalls>>

----------------------------------------------------------------------------
(* Python values *)

\* d.get(k, default)
DictGet(d, k, default) == IF k \in DOMAIN d THEN d[k] ELSE default

\* s < t on str: lexicographic comparison of code points
StrLess(s, t) ==
    \E i \in 1..Len(t) :
        /\ i <= Len(s) + 1
        /\ \A j \in 1..(i - 1) : s[j] = t[j]
        /\ (i = Len(s) + 1 \/ s[i] < t[i])

Reverse(s) == [i \in 1..Len(s) |-> s[Len(s) + 1 - i]]

\* x.get("createdAt", "")
SortKey(x) == DictGet(x, "createdAt", <<>>)

\* One step of a stable ascending sort: x, which followed every element of acc
\* in the input, goes after the elements whose key is not greater than its own.
InsertSorted(acc, x) ==
    LET p == Cardinality({i \in 1..Len(acc) : ~StrLess(SortKey(x), SortKey(acc[i]))})
    IN  SubSeq(acc, 1, p) \o <<x>> \o SubSeq(acc, p + 1, Len(acc))

RECURSIVE SortAsc(_)
SortAsc(s) ==
    IF Len(s) = 0 THEN <<>>
    ELSE InsertSorted(SortAsc(SubSeq(s, 1, Len(s) - 1)), s[Len(s)])

\* Variant: sorts ascending and reverses, which turns equal keys around.
ListSortReverse_Unstable(s) == Reverse(SortAsc(s))

\* list.sort(key=..., reverse=True): CPython reverses the list, sorts it
\* ascending with a stable sort, and reverses the result.
ListSortReverse(s) == Reverse(SortAsc(Reverse(s)))

----------------------------------------------------------------------------
(* Test records and tests.json *)

Ids == {"a", "b"}
\* "10" and "2": as strings "10" < "2", as numbers the other way round
CreatedAts == {<<1, 0>>, <<2>>}

\* class Test(BaseModel) and test.dict()
Test(id, createdAt) ==
    [id |-> id, title |-> "T", duration |-> 60, questions |-> <<>>,
     createdAt |-> createdAt]

TestRecords == {Test(i, c) : i \in Ids, c \in CreatedAts}

\* A record written before createdAt existed: what x.get("createdAt", "") is for.
LegacyRecords == {[id |-> "a", title |-> "T", duration |-> 60, questions |-> <<>>]}

FieldOrder == <<"id", "title", "duration", "questions", "createdAt">>

\* Variant: the last member of the dict is not written.
JsonDumpObj_SkipsLast(d) ==
    LET ks == SelectSeq(FieldOrder, LAMBDA k : k \in DOMAIN d)
    IN  [i \in 1..(Len(ks) - 1) |-> <<ks[i], d[ks[i]]>>]

\* json.dump of one dict: its items, in insertion order
JsonDumpObj(d) ==
    LET ks == SelectSeq(FieldOrder, LAMBDA k : k \in DOMAIN d)
    IN  [i \in 1..Len(ks) |-> <<ks[i], d[ks[i]]>>]

\* json.dump(tests, f)
JsonDump(l) == [i \in 1..Len(l) |-> JsonDumpObj(l[i])]

\* json.load of one object: the last item of each key wins
JsonLoadObj(o) ==
    [k \in {o[i][1] : i \in 1..Len(o)} |->
        LET i == CHOOSE i \in 1..Len(o) :
                     o[i][1] = k /\ \A j \in (i + 1)..Len(o) : o[j][1] # k
        IN  o[i][2]]

\* json.load(f)
JsonLoad(text) == [i \in 1..Len(text) |-> JsonLoadObj(text[i])]

NoFile == [exists |-> FALSE, valid |-> FALSE, text |-> <<>>]
CorruptFile == [exists |-> TRUE, valid |-> FALSE, text |-> <<>>]

load_tests_from_db(f) ==
    IF ~f.exists THEN <<>>
    ELSE IF ~f.valid THEN <<>>
    ELSE JsonLoad(f.text)

save_tests_to_db(l) == [exists |-> TRUE, valid |-> TRUE, text |-> JsonDump(l)]

RECURSIVE ListsUpTo(_, _)
ListsUpTo(S, n) ==
    IF n = 0 THEN {<<>>}
    ELSE LET shorter == ListsUpTo(S, n - 1)
         IN  shorter \cup {Append(l, x) : l \in shorter, x \in S}

----------------------------------------------------------------------------
(* Requests *)

NoReq == [worker |-> "", op |-> "", arg |-> ""]
NoResp == [status |-> 0, body |-> ""]
NoReply == [status |-> 0, body |-> [k |-> "notjson"]]

\* The event loop of process w is running a handler.
LoopBusy(w) == \E s \in Reqs : pc[s] \in {"loaded", "net"} /\ req[s].worker = w

\* Request r can be picked up by its process's event loop.
Runnable(r) == pc[r] = "queued" /\ ~LoopBusy(req[r].worker)

Arrive(r, w, o, a) ==
    /\ pc[r] = "idle"
    /\ IF r = 1 THEN TRUE ELSE pc[r - 1] # "idle"
    /\ pc' = [pc EXCEPT ![r] = "queued"]
    /\ req' = [req EXCEPT ![r] = [worker |-> w, op |-> o, arg |-> a]]
    /\ UNCHANGED <<apiKey, reply, seed, file, snap, tests, resp, netCalls>>

\* GET /api/tests
get_all_tests(r) ==
    /\ Runnable(r)
    /\ req[r].op = "get_all_tests"
    /\ LET loaded == load_tests_from_db(file)
       IN  /\ snap' = [snap EXCEPT ![r] = loaded]
           /\ tests' = [tests EXCEPT ![r] = ListSortReverse(loaded)]
           /\ resp' = [resp EXCEPT ![r] =
                          [status |-> 200, body |-> ListSortReverse(loaded)]]
    /\ pc' = [pc EXCEPT ![r] = "done"]
    /\ UNCHANGED <<apiKey, reply, seed, file, req, netCalls>>

\* POST /api/tests, up to tests.append(test.dict())
save_new_test_load(r) ==
    /\ Runnable(r)
    /\ req[r].op = "save_new_test"
    /\ LET loaded == load_tests_from_db(file)
       IN  /\ snap' = [snap EXCEPT ![r] = loaded]
           /\ tests' = [tests EXCEPT ![r] = Append(loaded, req[r].arg)]
    /\ pc' = [pc EXCEPT ![r] = "loaded"]
    /\ UNCHANGED <<apiKey, reply, seed, file, req, resp, netCalls>>

\* Variant: the append is applied to the file as it is at the time of writing.
save_new_test_write_Reloads(r) ==
    /\ pc[r] = "loaded"
    /\ req[r].op = "save_new_test"
    /\ file' = save_tests_to_db(Append(load_tests_from_db(file), req[r].arg))
    /\ resp' = [resp EXCEPT ![r] =
                   [status |-> 200,
                    body |-> [status |-> "success", test_id |-> req[r].arg.id]]]
    /\ pc' = [pc EXCEPT ![r] = "done"]
    /\ UNCHANGED <<apiKey, reply, seed, req, snap, tests, netCalls>>

\* POST /api/tests, save_tests_to_db(tests) and the return
save_new_test_write(r) ==
    /\ pc[r] = "loaded"
    /\ req[r].op = "save_new_test"
    /\ file' = save_tests_to_db(tests[r])
    /\ resp' = [resp EXCEPT ![r] =
                   [status |-> 200,
                    body |-> [status |-> "success", test_id |-> req[r].arg.id]]]
    /\ pc' = [pc EXCEPT ![r] = "done"]
    /\ UNCHANGED <<apiKey, reply, seed, req, snap, tests, netCalls>>

\* t.get("id") != test_id
KeepOnDelete(t, test_id) == IF "id" \in DOMAIN t THEN t.id # test_id ELSE TRUE

\* Variant: only the first record with the id is dropped (tests.remove).
DeleteFilter_FirstOnly(l, test_id) ==
    IF \A i \in 1..Len(l) : KeepOnDelete(l[i], test_id) THEN l
    ELSE LET i == CHOOSE i \in 1..Len(l) :
                      /\ ~KeepOnDelete(l[i], test_id)
                      /\ \A j \in 1..(i - 1) : KeepOnDelete(l[j], test_id)
         IN  SubSeq(l, 1, i - 1) \o SubSeq(l, i + 1, Len(l))

\* [t for t in tests if t.get("id") != test_id]
DeleteFilter(l, test_id) == SelectSeq(l, LAMBDA t : KeepOnDelete(t, test_id))

\* Variant: 404 only when nothing is left (`if not tests`).
NothingDeleted_WhenEmpty(kept, loaded) == Len(kept) = 0

\* len(tests) == initial_length
NothingDeleted(kept, loaded) == Len(kept) = Len(loaded)

\* DELETE /api/tests/{test_id}, up to the 404 check
delete_a_test_load(r) ==
    /\ Runnable(r)
    /\ req[r].op = "delete_a_test"
    /\ LET loaded == load_tests_from_db(file)
           kept == DeleteFilter(loaded, req[r].arg)
       IN  /\ snap' = [snap EXCEPT ![r] = loaded]
           /\ tests' = [tests EXCEPT ![r] = kept]
           /\ IF NothingDeleted(kept, loaded)
              THEN /\ resp' = [resp EXCEPT ![r] =
                                  [status |-> 404,
                                   body |-> [detail |-> "Test not found"]]]
                   /\ pc' = [pc EXCEPT ![r] = "done"]
              ELSE /\ resp' = resp
                   /\ pc' = [pc EXCEPT ![r] = "loaded"]
    /\ UNCHANGED <<apiKey, reply, seed, file, req, netCalls>>

\* DELETE /api/tests/{test_id}, save_tests_to_db(tests) and the return
delete_a_test_write(r) ==
    /\ pc[r] = "loaded"
    /\ req[r].op = "delete_a_test"
    /\ file' = save_tests_to_db(tests[r])
    /\ resp' = [resp EXCEPT ![r] =
                   [status |-> 200,
                    body |-> [status |-> "success", deleted_id |-> req[r].arg]]]
    /\ pc' = [pc EXCEPT ![r] = "done"]
    /\ UNCHANGED <<apiKey, reply, seed, req, snap, tests, netCalls>>

----------------------------------------------------------------------------
(* JSON values as json.loads and response.json() build them *)

JNull == [k |-> "null"]
JInt(n) == [k |-> "int", v |-> n]
JFloat(n) == [k |-> "float", v |-> n]        \* the float n.0
JStr(s) == [k |-> "str", v |-> s]
JList(l) == [k |-> "list", v |-> l]
JDict(d) == [k |-> "dict", v |-> d]

\* A character of a str.  A serialised JSON document inside a str is kept as
\* one symbol that carries the document.
Ch(c) == [c |-> c]
JsonText(doc) == JStr(<<[c |-> "json", doc |-> doc]>>)
S(cs) == JStr([i \in 1..Len(cs) |-> Ch(cs[i])])

Ok(v) == [exc |-> "", val |-> v]
Raise(e) == [exc |-> e, val |-> JNull]

\* x["name"]
SubscriptKey(x, name) ==
    IF x.k = "dict"
    THEN IF name \in DOMAIN x.v THEN Ok(x.v[name]) ELSE Raise("KeyError")
    ELSE Raise("TypeError")

\* x[i], i a non-negative int
SubscriptIdx(x, i) ==
    CASE x.k = "dict" -> Raise("KeyError")
      [] x.k = "list" -> IF i < Len(x.v) THEN Ok(x.v[i + 1]) ELSE Raise("IndexError")
      [] x.k = "str" -> IF i < Len(x.v) THEN Ok(JStr(<<x.v[i + 1]>>)) ELSE Raise("IndexError")
      [] OTHER -> Raise("TypeError")

\* "name" in x, for a name that is no element or substring of the lists and
\* strings at hand
Contains(name, x) ==
    CASE x.k = "dict" -> [exc |-> "", yes |-> name \in DOMAIN x.v]
      [] x.k \in {"list", "str"} -> [exc |-> "", yes |-> FALSE]
      [] OTHER -> [exc |-> "TypeError", yes |-> FALSE]

\* json.loads(x)
JsonLoads(x) ==
    IF x.k # "str" THEN Raise("TypeError")
    ELSE IF Len(x.v) = 1 /\ x.v[1].c = "json" THEN Ok(x.v[1].doc)
    ELSE Raise("JSONDecodeError")

\* json.loads(result["candidates"][0]["content"]["parts"][0]["text"])
ExtractAndParse(result) ==
    LET a == SubscriptKey(result, "candidates") IN
    IF a.exc # "" THEN a ELSE
    LET b == SubscriptIdx(a.val, 0) IN
    IF b.exc # "" THEN b ELSE
    LET c == SubscriptKey(b.val, "content") IN
    IF c.exc # "" THEN c ELSE
    LET d == SubscriptKey(c.val, "parts") IN
    IF d.exc # "" THEN d ELSE
    LET e == SubscriptIdx(d.val, 0) IN
    IF e.exc # "" THEN e ELSE
    LET f == SubscriptKey(e.val, "text") IN
    IF f.exc # "" THEN f ELSE JsonLoads(f.val)

----------------------------------------------------------------------------
(* call_gemini_api *)

NotJson == [k |-> "notjson"]

Return(v) == [kind |-> "return", status |-> 200, detail |-> "", val |-> v]
HttpException(status, detail) ==
    [kind |-> "HTTPException", status |-> status, detail |-> detail, val |-> JNull]
\* An exception no handler catches: the server answers 500 Internal Server Error.
Unhandled(exc) == [kind |-> "unhandled", status |-> 500, detail |-> exc, val |-> JNull]

\* Variant: only the placeholder counts as no key.
KeyMissing_PlaceholderOnly(key) == key = "YOUR_API_KEY_HERE"

\* not API_KEY or API_KEY == "YOUR_API_KEY_HERE"
KeyMissing(key) == key = "" \/ key = "YOUR_API_KEY_HERE"

\* except (KeyError, IndexError, json.JSONDecodeError)
Caught == {"KeyError", "IndexError", "JSONDecodeError"}

\* "promptFeedback" in result and "blockReason" in result["promptFeedback"]
BlockCheck(result) ==
    LET a == Contains("promptFeedback", result) IN
    IF a.exc # "" \/ ~a.yes THEN a
    ELSE Contains("blockReason", SubscriptKey(result, "promptFeedback").val)

\* call_gemini_api from `if response.status_code != 200` on
call_gemini_api(response) ==
    IF response.status # 200
    THEN HttpException(response.status, "API call failed")
    ELSE IF response.body.k = "notjson" THEN Unhandled("JSONDecodeError")
    ELSE
    LET result == response.body
        blocked == BlockCheck(result)
    IN  IF blocked.exc # "" THEN Unhandled(blocked.exc)
        ELSE IF blocked.yes THEN HttpException(400, "Request blocked by API")
        ELSE LET parsed == ExtractAndParse(result)
             IN  IF parsed.exc \in Caught
                 THEN HttpException(500, "Invalid response structure from AI")
                 ELSE IF parsed.exc # "" THEN Unhandled(parsed.exc)
                 ELSE Return(parsed.val)

----------------------------------------------------------------------------
(* generate_paper: the checks on the parsed response *)

IsSpace(ch) == ch.c \in {" ", "\t", "\n"}

\* s.strip(), s the characters of a str
RECURSIVE StripLeft(_)
StripLeft(s) ==
    IF Len(s) > 0 /\ IsSpace(s[1]) THEN StripLeft(SubSeq(s, 2, Len(s))) ELSE s
Strip(s) == Reverse(StripLeft(Reverse(StripLeft(s))))

\* Variant: the text is not stripped, so blanks count as a question.
QuestionTextMissing_NoStrip(q) ==
    IF "questionText" \notin DOMAIN q.v THEN [exc |-> "", yes |-> TRUE]
    ELSE [exc |-> "", yes |-> q.v.questionText.k = "str" /\ Len(q.v.questionText.v) = 0]

\* not q.get("questionText") or not q["questionText"].strip()
\* TRUE: the text is missing; FALSE: it is there; otherwise the exception raised
QuestionTextMissing(q) ==
    IF "questionText" \notin DOMAIN q.v THEN [exc |-> "", yes |-> TRUE]
    ELSE LET t == q.v.questionText
         IN  CASE t.k = "null" -> [exc |-> "", yes |-> TRUE]
               [] t.k = "str" -> [exc |-> "", yes |-> Len(Strip(t.v)) = 0]
               [] t.k \in {"list", "dict"} ->
                      IF t.k = "list" /\ Len(t.v) = 0
                      THEN [exc |-> "", yes |-> TRUE]
                      ELSE [exc |-> "AttributeError", yes |-> FALSE]
               [] OTHER ->
                      IF t.v = 0
                      THEN [exc |-> "", yes |-> TRUE]
                      ELSE [exc |-> "AttributeError", yes |-> FALSE]

\* isinstance(correct_idx, int)
IsInt(x) == x.k = "int"

\* len(options)
PyLen(x) ==
    CASE x.k \in {"list", "str"} -> Ok(JInt(Len(x.v)))
      [] x.k = "dict" -> Ok(JInt(Cardinality(DOMAIN x.v)))
      [] OTHER -> Raise("TypeError")

\* Variant: correct_idx > len(options) instead of >=.
OutOfRange_OffByOne(correct_idx, options) ==
    IF ~IsInt(correct_idx) THEN [exc |-> "", yes |-> TRUE]
    ELSE IF correct_idx.v < 0 THEN [exc |-> "", yes |-> TRUE]
    ELSE [exc |-> "", yes |-> correct_idx.v > PyLen(options).val.v]

\* not isinstance(correct_idx, int) or correct_idx < 0 or correct_idx >= len(options)
OutOfRange(correct_idx, options) ==
    IF ~IsInt(correct_idx) THEN [exc |-> "", yes |-> TRUE]
    ELSE IF correct_idx.v < 0 THEN [exc |-> "", yes |-> TRUE]
    ELSE LET n == PyLen(options)
         IN  IF n.exc # "" THEN [exc |-> n.exc, yes |-> FALSE]
             ELSE [exc |-> "", yes |-> correct_idx.v >= n.val.v]

\* str(correct_idx) inside the f-string
PyStr(x) ==
    CASE x.k = "null" -> <<"None", 0>>
      [] x.k = "int" -> <<"int", x.v>>
      [] x.k = "float" -> <<"float", x.v>>
      [] OTHER -> <<x.k, 0>>

\* f"Question {idx+1}: correctOptionIndex {correct_idx} is out of range."
Warning(idx, correct_idx) ==
    JStr(<<"Question ", idx + 1, ": correctOptionIndex ", PyStr(correct_idx),
           " is out of range.">>)

\* isinstance(correct_idx, int) and 0 <= correct_idx < len(options)
HeuristicApplies(correct_idx, options) ==
    IF ~IsInt(correct_idx) THEN FALSE
    ELSE IF correct_idx.v < 0 THEN FALSE
    ELSE correct_idx.v < PyLen(options).val.v

\* The heuristic of lines 187-191: under its guard,
\* options[correct_idx].split('(') is evaluated and its result dropped.
\* The exception it raises, "" for none.
Heuristic(q, correct_idx, options) ==
    IF ~HeuristicApplies(correct_idx, options) THEN ""
    ELSE LET answer == SubscriptIdx(options, correct_idx.v)
         IN  IF answer.exc # "" THEN answer.exc
             ELSE IF answer.val.k = "str" THEN "" ELSE "AttributeError"

\* The loop body for q = questions[idx + 1], warnings collected so far in ws
\* [stop |-> TRUE, out] ends the handler; otherwise the loop goes on with ws
CheckQuestion(result, q, idx, ws) ==
    IF q.k # "dict" THEN [stop |-> TRUE, out |-> Unhandled("AttributeError"), ws |-> ws]
    ELSE
    LET missing == QuestionTextMissing(q) IN
    IF missing.exc # "" THEN [stop |-> TRUE, out |-> Unhandled(missing.exc), ws |-> ws]
    ELSE IF missing.yes
    THEN [stop |-> TRUE,
          out |-> Return(JDict(
                     [error |-> "AI response missing questionText in one or more questions.",
                      raw_response |-> result])),
          ws |-> ws]
    ELSE
    LET options == DictGet(q.v, "options", JList(<<>>))
        correct_idx == DictGet(q.v, "correctOptionIndex", JNull)
        bad == OutOfRange(correct_idx, options)
        warned == IF bad.yes THEN Append(ws, Warning(idx, correct_idx)) ELSE ws
    IN  IF bad.exc # "" THEN [stop |-> TRUE, out |-> Unhandled(bad.exc), ws |-> ws]
        ELSE IF Heuristic(q, correct_idx, options) # ""
        THEN [stop |-> TRUE,
              out |-> Unhandled(Heuristic(q, correct_idx, options)), ws |-> ws]
        ELSE [stop |-> FALSE, out |-> Return(result), ws |-> warned]

\* for idx, q in enumerate(questions), from position idx on
RECURSIVE CheckFrom(_, _, _, _)
CheckFrom(result, questions, idx, ws) ==
    IF idx >= Len(questions) THEN [stop |-> FALSE, out |-> Return(result), ws |-> ws]
    ELSE LET one == CheckQuestion(result, questions[idx + 1], idx, ws)
         IN  IF one.stop THEN one
             ELSE CheckFrom(result, questions, idx + 1, one.ws)

\* result["warnings"] = warnings
SetWarnings(result, ws) ==
    JDict([f \in DOMAIN result.v \cup {"warnings"} |->
              IF f = "warnings" THEN JList(ws) ELSE result.v[f]])

\* generate_paper from `warnings = []` to `return result`
validate_paper(result) ==
    IF result.k # "dict" THEN Unhandled("AttributeError")
    ELSE LET questions == DictGet(result.v, "questions", JList(<<>>))
         IN  IF questions.k # "list" THEN Unhandled("TypeError")
             ELSE LET loop == CheckFrom(result, questions.v, 0, <<>>)
                  IN  IF loop.stop THEN loop.out
                      ELSE IF Len(loop.ws) > 0
                      THEN Return(SetWarnings(result, loop.ws))
                      ELSE Return(result)

----------------------------------------------------------------------------
(* The three AI endpoints *)

AiOps == {"generate_paper", "parse_text", "generate_similar"}

HttpResponse(out) ==
    CASE out.kind = "return" -> [status |-> 200, body |-> out.val]
      [] out.kind = "HTTPException" ->
             [status |-> out.status, body |-> [detail |-> out.detail]]
      [] OTHER -> [status |-> 500, body |-> [unhandled |-> out.detail]]

\* An AI endpoint up to requests.post: the prompt is built, call_gemini_api
\* checks the key and sends the request.  The call is synchronous, so the
\* process's event loop stays with this handler until it returns.
ai_start(r) ==
    /\ Runnable(r)
    /\ req[r].op \in AiOps
    /\ IF KeyMissing(apiKey)
       THEN /\ resp' = [resp EXCEPT ![r] = HttpResponse(
                           HttpException(500, "Google AI API Key is not set in main.py."))]
            /\ pc' = [pc EXCEPT ![r] = "done"]
            /\ netCalls' = netCalls
       ELSE /\ resp' = resp
            /\ pc' = [pc EXCEPT ![r] = "net"]
            /\ netCalls' = netCalls + 1
    /\ UNCHANGED <<apiKey, reply, seed, file, req, snap, tests>>

\* requests.post returns; the rest of call_gemini_api and of the endpoint
ai_return(r) ==
    /\ pc[r] = "net"
    /\ LET got == call_gemini_api(reply)
           out == IF got.kind = "return" /\ req[r].op = "generate_paper"
                  THEN validate_paper(got.val)
                  ELSE got
       IN  resp' = [resp EXCEPT ![r] = HttpResponse(out)]
    /\ pc' = [pc EXCEPT ![r] = "done"]
    /\ UNCHANGED <<apiKey, reply, seed, file, req, snap, tests, netCalls>>

----------------------------------------------------------------------------
(* What the provider can answer *)

Absent == [k |-> "absent"]

\* A JSON object with the given members, those that are Absent left out.
Object(d) == JDict([f \in {g \in DOMAIN d : d[g].k # "absent"} |-> d[f]])

\* Question objects as the response schema types them (questionText STRING,
\* options ARRAY of STRING, correctOptionIndex NUMBER), any member possibly
\* missing.
QuestionTexts == {Absent, S(<<>>), S(<<" ">>), S(<<" ", "Q">>)}
OptionLists == {Absent, JList([i \in 1..OptionCount |-> S(<<"A">>)])}
CorrectIndexes ==
    {Absent, JFloat(0)} \cup {JInt(n) : n \in {-1, 0, OptionCount - 1, OptionCount}}

Questions ==
    {Object([questionText |-> t, options |-> o, correctOptionIndex |-> c,
             explanation |-> S(<<"E">>)]) :
        t \in QuestionTexts, o \in OptionLists, c \in CorrectIndexes}

Paper(qs) ==
    Object([title |-> S(<<"T">>), duration |-> JInt(60), questions |-> qs])

\* Parsed responses of generate-paper
Papers == {Paper(Absent)} \cup {Paper(JList(qs)) : qs \in ListsUpTo(Questions, MaxQuestions)}

\* The envelope around a text: {"candidates": [{"content": {"parts": [{"text": ...}]}}]}
InCandidates(x) == JDict([candidates |-> x])
InContent(x) == JDict([content |-> x])
InParts(x) == JDict([parts |-> x])
InText(x) == JDict([text |-> x])
One(x) == JList(<<x>>)
Envelope(text) == InCandidates(One(InContent(InParts(One(InText(text))))))

\* Values of the wrong shape for a place of the envelope
Junk ==
    {JNull, JInt(1), S(<<>>), S(<<"a", "b">>), JList(<<>>), JList(<<JNull>>),
     JDict([other |-> JNull])}

GoodQuestion ==
    Object([questionText |-> S(<<"Q">>), options |-> JList([i \in 1..OptionCount |-> S(<<"A">>)]),
            correctOptionIndex |-> JInt(0), explanation |-> S(<<"E">>)])

\* Texts the provider may put into the envelope
SampleDocs ==
    {Paper(JList(<<GoodQuestion>>)), JList(<<GoodQuestion>>), JInt(1)}

MalformedEnvelopes ==
    Junk
        \cup {InCandidates(x) : x \in Junk}
        \cup {InCandidates(One(x)) : x \in Junk}
        \cup {InCandidates(One(InContent(x))) : x \in Junk}
        \cup {InCandidates(One(InContent(InParts(x)))) : x \in Junk}
        \cup {InCandidates(One(InContent(InParts(One(x))))) : x \in Junk}
        \cup {Envelope(x) : x \in Junk}

\* promptFeedback next to the candidates
WithFeedback(env, fb) ==
    JDict([f \in DOMAIN env.v \cup {"promptFeedback"} |->
              IF f = "promptFeedback" THEN fb ELSE env.v[f]])

FeedbackEnvelopes ==
    LET env == Envelope(JsonText(Paper(JList(<<GoodQuestion>>))))
    IN  {WithFeedback(env, JDict([blockReason |-> S(<<"S">>)])),
         WithFeedback(env, JDict([safetyRatings |-> JList(<<>>)])),
         WithFeedback(env, JNull)}

Reply(status, body) == [status |-> status, body |-> body]

GatewayReplies ==
    {Reply(503, NotJson), Reply(200, NotJson)}
        \cup {Reply(200, e) : e \in MalformedEnvelopes \cup FeedbackEnvelopes}
        \cup {Reply(200, Envelope(JsonText(d))) : d \in SampleDocs}

PaperReplies == {Reply(200, Envelope(JsonText(d))) : d \in Papers}

ApiKeys == {"", "YOUR_API_KEY_HERE", "KEY"}

----------------------------------------------------------------------------
(* Specifications *)

SeedFiles ==
    {NoFile, CorruptFile}
        \cup {save_tests_to_db(l) : l \in ListsUpTo(TestRecords \cup LegacyRecords, MaxSeed)}

InitRequests ==
    /\ pc = [r \in Reqs |-> "idle"]
    /\ req = [r \in Reqs |-> NoReq]
    /\ snap = [r \in Reqs |-> <<>>]
    /\ tests = [r \in Reqs |-> <<>>]
    /\ resp = [r \in Reqs |-> NoResp]
    /\ netCalls = 0

\* No request is being handled or waiting.
Quiescent == \A s \in Reqs : pc[s] \in {"idle", "done"}

\* One client that waits for each answer before it sends the next request to
\* a single server process.
InitStore ==
    /\ apiKey = ""
    /\ reply = NoReply
    /\ seed \in SeedFiles
    /\ file = seed
    /\ InitRequests

NextStore ==
    \E r \in Reqs :
        \/ Quiescent /\ Arrive(r, "w1", "get_all_tests", "")
        \/ \E t \in TestRecords : Quiescent /\ Arrive(r, "w1", "save_new_test", t)
        \/ \E id \in Ids : Quiescent /\ Arrive(r, "w1", "delete_a_test", id)
        \/ get_all_tests(r)
        \/ save_new_test_load(r)
        \/ save_new_test_write(r)
        \/ delete_a_test_load(r)
        \/ delete_a_test_write(r)

SpecStore == InitStore /\ [][NextStore]_vars

\* One request to an AI endpoint, any key, any provider answer.
InitGateway ==
    /\ apiKey \in ApiKeys
    /\ reply \in GatewayReplies
    /\ seed = NoFile
    /\ file = seed
    /\ InitRequests

NextGateway ==
    \/ \E o \in AiOps : Arrive(1, "w1", o, "")
    \/ ai_start(1)
    \/ ai_return(1)

SpecGateway == InitGateway /\ [][NextGateway]_vars

\* One request to generate-paper with a key set, the provider answering with
\* a well-formed envelope around any paper.
InitValidator ==
    /\ apiKey = "KEY"
    /\ reply \in PaperReplies
    /\ seed = NoFile
    /\ file = seed
    /\ InitRequests

NextValidator ==
    \/ Arrive(1, "w1", "generate_paper", "")
    \/ ai_start(1)
    \/ ai_return(1)

SpecValidator == InitValidator /\ [][NextValidator]_vars

\* The server: several processes, requests of every kind in flight together.
SampleSeeds == {NoFile, save_tests_to_db(<<Test("a", <<2>>)>>)}
SampleReplies == {Reply(200, Envelope(JsonText(Paper(JList(<<GoodQuestion>>)))))}

Init ==
    /\ apiKey \in ApiKeys
    /\ reply \in SampleReplies
    /\ seed \in SampleSeeds
    /\ file = seed
    /\ InitRequests

Next ==
    \E r \in Reqs :
        \/ \E w \in Workers : Arrive(r, w, "get_all_tests", "")
        \/ \E w \in Workers, t \in TestRecords : Arrive(r, w, "save_new_test", t)
        \/ \E w \in Workers, id \in Ids : Arrive(r, w, "delete_a_test", id)
        \/ \E w \in Workers, o \in AiOps : Arrive(r, w, o, "")
        \/ get_all_tests(r)
        \/ save_new_test_load(r)
        \/ save_new_test_write(r)
        \/ delete_a_test_load(r)
        \/ delete_a_test_write(r)
        \/ ai_start(r)
        \/ ai_return(r)

Spec == Init /\ [][Next]_vars

----------------------------------------------------------------------------
(* Properties *)

Done(r) == pc[r] = "done"

CountOf(l, t) == Cardinality({i \in 1..Len(l) : l[i] = t})

HasId(t, id) == "id" \in DOMAIN t /\ t.id = id

\* The records of l whose id is not `id`, in the order of l
OtherIds(l, id) == SelectSeq(l, LAMBDA t : ~HasId(t, id))

\* l without its i-th element
Without(l, i) == SubSeq(l, 1, i - 1) \o SubSeq(l, i + 1, Len(l))

\* tests.json at startup holds what POST /api/tests and DELETE calls of an
\* earlier run can have left there.
SeedFromApi ==
    \/ ~seed.exists
    \/ seed.valid /\ \A i \in 1..Len(seed.text) : JsonLoadObj(seed.text[i]) \in TestRecords

\* Request g is a GET /api/tests answered directly after the POST /api/tests p.
PostThenGet(p, g) ==
    /\ g = p + 1
    /\ req[p].op = "save_new_test"
    /\ req[g].op = "get_all_tests"
    /\ Done(g)

DeleteDone(d) ==
    /\ req[d].op = "delete_a_test"
    /\ Done(d)
    /\ \E i \in 1..Len(snap[d]) : HasId(snap[d][i], req[d].arg)
    /\ \A s \in Reqs : s > d => pc[s] \in {"idle", "queued"}

C3_AbsentIdNotFound ==
    [][\A r \in Reqs :
          (/\ pc[r] = "queued"
           /\ pc'[r] # "queued"
           /\ req[r].op = "delete_a_test"
           /\ \A i \in 1..Len(load_tests_from_db(file)) :
                  ~HasId(load_tests_from_db(file)[i], req[r].arg))
          => (/\ pc'[r] = "done"
              /\ resp'[r].status = 404
              /\ file' = file)]_vars

C3_Witness ==
    \E d \in Reqs :
        /\ req[d].op = "delete_a_test"
        /\ Done(d)
        /\ resp[d].status = 404
        /\ Len(snap[d]) > 0
        /\ load_tests_from_db(file) = snap[d]

\* createdAt of a record, the empty string when it has none
CreatedAtOf(t) == IF "createdAt" \in DOMAIN t THEN t.createdAt ELSE <<>>

\* s <= t as strings
RECURSIVE LexLeq(_, _)
LexLeq(s, t) ==
    IF Len(s) = 0 THEN TRUE
    ELSE IF Len(t) = 0 THEN FALSE
    ELSE s[1] < t[1] \/ (s[1] = t[1] /\ LexLeq(Tail(s), Tail(t)))

WithCreatedAt(l, c) == SelectSeq(l, LAMBDA t : CreatedAtOf(t) = c)

PaperOf(rp) == rp.body.v.candidates.v[1].v.content.v.parts.v[1].v.text.v[1].doc

QuestionsOf(d) == IF "questions" \in DOMAIN d.v THEN d.v.questions.v ELSE <<>>

\* questionText is there and is not blank
TextPresent(q) ==
    /\ "questionText" \in DOMAIN q.v
    /\ \E i \in 1..Len(q.v.questionText.v) : q.v.questionText.v[i].c # " "

\* correctOptionIndex is no integer, or lies outside [0, len(options) - 1]
BadIndex(q) ==
    LET n == IF "options" \in DOMAIN q.v THEN Len(q.v.options.v) ELSE 0
    IN  \/ "correctOptionIndex" \notin DOMAIN q.v
        \/ q.v.correctOptionIndex.k # "int"
        \/ q.v.correctOptionIndex.v < 0
        \/ q.v.correctOptionIndex.v > n - 1

\* The warning for the question at 1-based position i
ExpectedWarning(i, q) ==
    LET shown == IF "correctOptionIndex" \notin DOMAIN q.v THEN <<"None", 0>>
                 ELSE <<q.v.correctOptionIndex.k, q.v.correctOptionIndex.v>>
    IN  JStr(<<"Question ", i, ": correctOptionIndex ", shown, " is out of range.">>)

BadPositions(qs) == SelectSeq([i \in 1..Len(qs) |-> i], LAMBDA i : BadIndex(qs[i]))

PaperDone(r) == req[r].op = "generate_paper" /\ Done(r) /\ ~KeyMissing(apiKey)

AiDone(r) == req[r].op \in AiOps /\ Done(r)

\* C7: with no API key set, every call of an AI endpoint answers 500 "key is
\* not set" and no request is ever sent to the provider.
C7_NoKeyNoNetwork ==
    apiKey \in {"", "YOUR_API_KEY_HERE"} =>
        /\ netCalls = 0
        /\ \A r \in Reqs :
               /\ pc[r] # "net"
               /\ AiDone(r) =>
                      /\ resp[r].status = 500
                      /\ resp[r].body = [detail |-> "Google AI API Key is not set in main.py."]

C7_Witness ==
    /\ apiKey = ""
    /\ netCalls = 0
    /\ \E r \in Reqs, s \in Reqs :
           /\ AiDone(r) /\ AiDone(s)
           /\ req[r].op # req[s].op
           /\ resp[r].status = 500 /\ resp[s].status = 500

\* The envelope has candidates[0].content.parts[0].text, a str of JSON.
WellFormed(e) ==
    /\ e.k = "dict" /\ "candidates" \in DOMAIN e.v
    /\ e.v.candidates.k = "list" /\ Len(e.v.candidates.v) > 0
    /\ LET c == e.v.candidates.v[1] IN
       /\ c.k = "dict" /\ "content" \in DOMAIN c.v
       /\ c.v.content.k = "dict" /\ "parts" \in DOMAIN c.v.content.v
       /\ c.v.content.v.parts.k = "list" /\ Len(c.v.content.v.parts.v) > 0
       /\ LET p == c.v.content.v.parts.v[1] IN
          /\ p.k = "dict" /\ "text" \in DOMAIN p.v
          /\ p.v.text.k = "str" /\ Len(p.v.text.v) = 1 /\ p.v.text.v[1].c = "json"

\* The provider answered 200 with a JSON object that has no promptFeedback and
\* is not a well-formed envelope.
StructuralMiss ==
    /\ reply.status = 200
    /\ reply.body.k = "dict"
    /\ "promptFeedback" \notin DOMAIN reply.body.v
    /\ ~WellFormed(reply.body)

\* C8: every structural miss in the provider's envelope (a missing key, an
\* empty sequence, a value of the wrong type at any level, text that is no
\* JSON) is answered 500 "Invalid response structure from AI".
C8_EveryMissIsMalformed ==
    \A r \in Reqs :
        (AiDone(r) /\ ~KeyMissing(apiKey) /\ StructuralMiss) =>
            /\ resp[r].status = 500
            /\ "detail" \in DOMAIN resp[r].body
            /\ resp[r].body.detail = "Invalid response structure from AI"

\* What does hold: a structural miss is answered 500 in every case, with the
\* message only when the miss is a missing key, an empty sequence or text that
\* is no JSON.
C8_MissIsServerError ==
    \A r \in Reqs :
        (AiDone(r) /\ ~KeyMissing(apiKey) /\ StructuralMiss) => resp[r].status = 500

\* Some step of the handler of request s can be taken.
CanProceed(s) ==
    ENABLED (\/ get_all_tests(s)
             \/ save_new_test_load(s)
             \/ delete_a_test_load(s)
             \/ ai_start(s))

\* C9: while the provider call of one request is outstanding, every other
\* request that has arrived can be handled.
C9_OthersProceed ==
    \A r \in Reqs, s \in Reqs :
        (pc[r] = "net" /\ s # r /\ pc[s] = "queued") => CanProceed(s)

\* What request r writes: the list it loaded with its own change applied
Effect(r) ==
    IF req[r].op = "save_new_test" THEN Append(snap[r], req[r].arg)
    ELSE OtherIds(snap[r], req[r].arg)

====
